---- MODULE Spec2Model ----
(***************************************************************************)
(* Model of the chunk generation coordinator                               *)
(* (agents/chunked-generation/chunked_generator/coordinator.py).           *)
(*                                                                         *)
(* One coordinating thread runs ChunkCoordinator.generate_project: it      *)
(* builds the GenerationState, runs the wave loop of                       *)
(* _generate_chunks_ordered, and each wave hands a batch to a thread pool  *)
(* (_generate_chunk_batch) whose worker threads run                        *)
(* _generate_single_chunk.  The outcome of one generation attempt (the     *)
(* external tool, the fallback and the validation) is an input of the      *)
(* scheduler, drawn from AttemptOutcomes.                                  *)
(***************************************************************************)
EXTENDS Integers, Sequences, FiniteSets, TLC

VARIABLES
    chunks,            \* analysis.chunks: the ChunkDefinitions in declaration order
    max_parallel,      \* ChunkCoordinator.max_parallel
    pc,                \* position of the coordinating thread in generate_project
    chunk_results,     \* state.chunk_results: chunk id -> ChunkResult
    current_chunk,     \* state.current_chunk
    completed_chunks,  \* local set completed_chunks of _generate_chunks_ordered
    batch_chunks,      \* batch_chunks of the current wave (sequence of chunk ids)
    future,            \* chunk id -> the pool future of the current wave
    mark_idx,          \* index of the "Mark completed chunks" loop in batch_chunks
    registry,          \* ContextManager.component_registry: chunk id -> entry
    error,             \* the exception generate_project caught, or NoError
    exit,              \* how generate_project left: "none", "returned", "raised"
    retries_executed,  \* history: chunk id -> number of recovery retries executed
    plan,              \* chunk id -> the outcomes its attempts can have
    state_file,        \* the file .generation_state.json: << >> or <<snapshot>>
    integration_runs,  \* history: number of calls of _validate_integration
    resumed,           \* "no", or how a run with resume_from got its state
    at_interrupt,      \* history: the done set and results when the run was stopped
    exec,              \* one chunk under _generate_single_chunk, step by step
    chunk_dir,         \* chunk id -> its directory holds a listed file
    progress_callback, \* ChunkCoordinator.progress_callback: the progress sink
    waves              \* history: the batches handed to the pool, in order

\* what the steps of a run never change
aux == <<plan, resumed, at_interrupt, exec, chunk_dir, progress_callback>>

vars == <<chunks, max_parallel, pc, chunk_results, current_chunk,
          completed_chunks, batch_chunks, future, mark_idx, registry,
          error, exit, retries_executed, plan, state_file, integration_runs,
          resumed, at_interrupt, exec, chunk_dir, progress_callback, waves>>

-----------------------------------------------------------------------------
(* Bounds and program constants *)

\* largest parallelism bound tried for ChunkCoordinator(max_parallel = P)
MaxParallel == 3

\* "if result.retry_count >= 2:  # Max 2 retries"
MaxRetries == 2

PENDING == "pending"
IN_PROGRESS == "in_progress"
COMPLETED == "completed"
FAILED == "failed"
SKIPPED == "skipped"

ChunkStatus == {PENDING, IN_PROGRESS, COMPLETED, FAILED, SKIPPED}

\* state.current_chunk = None
NoChunk == "None"

\* the key used by generate_project's handler when current_chunk is None
UnknownChunk == "unknown"

NoError == [text |-> "", ids |-> {}]

\* Exception("Circular dependency detected in chunks"): the text is a
\* constant and names no chunk id
CircularDependencyError ==
    [text |-> "Circular dependency detected in chunks", ids |-> {}]

\* an I/O error while writing README.md / ARCHITECTURE.md
DocumentationError == [text |-> "OSError", ids |-> {}]

-----------------------------------------------------------------------------
(* Chunk graphs *)

\* analyzer.py ChunkDefinition: id, dependencies and priority (1 unless said)
ChunkDefinition(id, deps) ==
    [chunk_id |-> id, dependencies |-> deps, priority |-> 1]

\* A (no deps) -> B, C (dep on A) -> D (dep on B, C)
Diamond == << ChunkDefinition("A", {}), ChunkDefinition("B", {"A"}),
              ChunkDefinition("C", {"A"}), ChunkDefinition("D", {"B", "C"}) >>

Chain == << ChunkDefinition("A", {}), ChunkDefinition("B", {"A"}),
            ChunkDefinition("C", {"B"}) >>

\* declaration order is not a topological order
ReverseChain == << ChunkDefinition("C", {"B"}), ChunkDefinition("B", {"A"}),
                   ChunkDefinition("A", {}) >>

Wide == << ChunkDefinition("A", {}), ChunkDefinition("B", {}),
           ChunkDefinition("C", {}), ChunkDefinition("D", {}) >>

Fork == << ChunkDefinition("A", {}), ChunkDefinition("B", {}),
           ChunkDefinition("C", {"A", "B"}) >>

\* X depends on Y, Y depends on X
TwoCycle == << ChunkDefinition("X", {"Y"}), ChunkDefinition("Y", {"X"}) >>

SelfCycle == << ChunkDefinition("X", {"X"}) >>

\* a chunk that is free, and a cycle behind it
FreeAndCycle == << ChunkDefinition("A", {}), ChunkDefinition("X", {"A", "Y"}),
                   ChunkDefinition("Y", {"X"}) >>

\* a cycle, and a chunk that waits for it
CycleAndTail == << ChunkDefinition("A", {}), ChunkDefinition("X", {"Y"}),
                   ChunkDefinition("Y", {"X"}), ChunkDefinition("Z", {"Y"}) >>

\* an analysis without chunks
NoChunks == << >>

\* three free chunks declared in an order that is not the order of their
\* priorities (an analysis read by load_analysis can declare them so)
Prioritized == << [ChunkDefinition("A", {}) EXCEPT !.priority = 2],
                  [ChunkDefinition("B", {}) EXCEPT !.priority = 1],
                  [ChunkDefinition("C", {}) EXCEPT !.priority = 3] >>

NamedGraphs == {Diamond, Chain, ReverseChain, Wide, Fork, TwoCycle, SelfCycle,
                FreeAndCycle, CycleAndTail, NoChunks, Prioritized}

\* every dependency relation between three chunks P, Q, R, acyclic or not
SmallIds == <<"P", "Q", "R">>

SmallGraphs ==
    {[i \in DOMAIN SmallIds |-> ChunkDefinition(SmallIds[i], d[i])] :
        d \in [DOMAIN SmallIds -> SUBSET {"P", "Q", "R"}]}

Graphs == NamedGraphs \cup {g \in SmallGraphs :
                               \A i \in DOMAIN g : g[i].chunk_id \notin g[i].dependencies}

Range(s) == {s[i] : i \in 1..Len(s)}

ChunkIds == {chunks[i].chunk_id : i \in 1..Len(chunks)}

Def(id) == CHOOSE d \in Range(chunks) : d.chunk_id = id

Deps(id) == Def(id).dependencies

\* chunk.dependencies closed under "depends on": every id that id needs,
\* directly or through other chunks
RECURSIVE Needs(_, _)
Needs(ids, n) ==
    IF n = 0 THEN ids
    ELSE Needs(ids \cup UNION {Deps(d) : d \in ids \cap ChunkIds}, n - 1)

Ancestors(id) == Needs(Deps(id), Len(chunks))

\* the dependent closure of id: chunks that need id at any depth
DependentClosure(id) == {c \in ChunkIds : id \in Ancestors(c)}

OnCycle(id) == id \in Ancestors(id)

Cyclic == \E c \in ChunkIds : OnCycle(c)

Acyclic == ~Cyclic

\* chunks that lie on a dependency cycle or need a chunk that does
BehindCycle(id) == OnCycle(id) \/ \E d \in Ancestors(id) \cap ChunkIds : OnCycle(d)

-----------------------------------------------------------------------------
(* ChunkResult *)

ChunkResult(id, status, files, msg) ==
    [chunk_id |-> id, status |-> status, files_generated |-> files,
     error_message |-> msg, retry_count |-> 0]

\* what the generation step of one attempt does: it returns files; the tool
\* exits with code 0 and wrote nothing; it raises; the fallback wrote a file
\* and raised
AttemptOutcomes == {"files", "no_files", "exception", "partial"}

\* the attempt leaves a file in the chunk directory: the tool or the fallback
\* wrote its files, or the fallback wrote one and raised at the next
LeavesFiles(outcome) == outcome \in {"files", "partial"}

\* _generate_single_chunk: the ChunkResult it returns; listed: os.walk finds
\* a file that an earlier attempt left in the chunk directory
GenerateSingleChunk(id, outcome, listed) ==
    IF outcome = "files" \/ (outcome = "no_files" /\ listed)
    THEN ChunkResult(id, COMPLETED, {"file"}, "")
    ELSE IF outcome = "no_files"
         THEN ChunkResult(id, FAILED, {}, "No files generated for chunk")
         ELSE ChunkResult(id, FAILED, {}, "OSError")

NoFuture == [state |-> "none", result |-> ChunkResult("", PENDING, {}, "")]

Status(id) == chunk_results[id].status

Terminal == {COMPLETED, FAILED, SKIPPED}

\* chunks whose generation is executing now: running pool tasks and the
\* recovery retry made by the coordinating thread
Running == {c \in ChunkIds : future[c].state = "running"}

Retrying == IF pc = "recovery" THEN {batch_chunks[mark_idx]} ELSE {}

Executing == Running \cup Retrying

\* chunks handed to the pool and not yet finished
Dispatched == {c \in ChunkIds : future[c].state \in {"submitted", "running"}}

\* the attempts of a chunk: the pool task ("orig") and the recovery retry
AnyOutcome == [orig |-> AttemptOutcomes, retry |-> AttemptOutcomes]

NotInterrupted == [at |-> "none", done |-> {}, results |-> << >>]

\* the step-by-step executor is not part of a scheduler run
ExecOff ==
    [pc |-> "off", chunk |-> << >>, def |-> << >>, attempt |-> 0, dir |-> {},
     files |-> << >>, call |-> "none", fallback_invoked |-> FALSE,
     warnings |-> {}, result |-> ChunkResult("", PENDING, << >>, ""),
     dependents_skipped |-> FALSE]

-----------------------------------------------------------------------------
(* _save_state and _load_state *)

\* dataclasses.asdict applied to a ChunkResult: a plain dict
AsDict(result) == [type |-> "dict", value |-> result]

\* dataclasses.asdict accepts dataclass instances only
IsDataclass(x) == "type" \notin DOMAIN x

\* line 762: asdict(state) already turns every ChunkResult into a dict
StateDict(results, cur) ==
    [chunk_results |-> [k \in DOMAIN results |-> AsDict(results[k])],
     current_chunk |-> cur]

\* lines 771-773: asdict(result) on each entry of state_dict['chunk_results']
ConvertRaises(state_dict) ==
    \E k \in DOMAIN state_dict.chunk_results :
        ~IsDataclass(state_dict.chunk_results[k])

\* lines 758-779: the file after _save_state; every exception is caught, and
\* the file is written only when the conversion and the write went through
SaveState(results, cur, file, io_ok) ==
    IF ConvertRaises(StateDict(results, cur)) \/ ~io_ok
    THEN file
    ELSE << StateDict(results, cur) >>

\* lines 781-788: GenerationState(**state_dict); the entries stay dicts
LoadState(file) == file[1]

-----------------------------------------------------------------------------
\* the state after construction, for a graph of graphs, attempts whose
\* outcomes are those of a member of outcomes and a progress sink of sinks
InitWith(graphs, outcomes, sinks) ==
    /\ chunks \in graphs
    /\ max_parallel \in 1..MaxParallel
    /\ pc = "start"
    /\ chunk_results = [c \in {} |-> NoFuture.result]
    /\ current_chunk = NoChunk
    /\ completed_chunks = {}
    /\ batch_chunks = << >>
    /\ future = [c \in ChunkIds |-> NoFuture]
    /\ mark_idx = 0
    /\ registry = << >>
    /\ error = NoError
    /\ exit = "none"
    /\ retries_executed = [c \in ChunkIds |-> 0]
    /\ plan \in [ChunkIds -> outcomes]
    /\ state_file = << >>
    /\ integration_runs = 0
    /\ resumed = "no"
    /\ at_interrupt = NotInterrupted
    /\ exec = ExecOff
    /\ chunk_dir = [c \in ChunkIds |-> FALSE]
    /\ progress_callback \in sinks
    /\ waves = << >>

\* line 56: no sink (None), or a callable that takes the line and returns
WorkingSinks == {"absent", "present"}

\* a callable that raises every time it is called
Sinks == WorkingSinks \cup {"failing"}

\* lines 790-797: _log_progress prints the line and calls the sink when there
\* is one; it has no try block, so what the sink raises leaves _log_progress
LogProgressRaises == progress_callback = "failing"

Init == InitWith(Graphs, {AnyOutcome}, WorkingSinks)

\* generate_project, lines 80-94: fresh state from _create_initial_state
CreateInitialState ==
    /\ pc = "start"
    /\ ~LogProgressRaises
    /\ chunk_results' = [c \in ChunkIds |-> ChunkResult(c, PENDING, {}, "")]
    /\ current_chunk' = NoChunk
    /\ pc' = "loop"
    /\ UNCHANGED <<aux, waves, state_file, integration_runs, chunks, max_parallel, completed_chunks, batch_chunks, future,
                   mark_idx, registry, error, exit, retries_executed>>

-----------------------------------------------------------------------------
(* _generate_chunks_ordered *)

Min(a, b) == IF a < b THEN a ELSE b

IdsInOrder == [i \in 1..Len(chunks) |-> chunks[i].chunk_id]

\* variant: a dependency counts only when it COMPLETED
IsReadyOnlyCompleted(id) ==
    /\ id \notin completed_chunks
    /\ \A d \in Deps(id) : d \in completed_chunks /\ Status(d) = COMPLETED

\* variant: the dependencies are not looked at
IsReadyIgnoringDependencies(id) == id \notin completed_chunks

\* variant: any() in place of all()
IsReadyAnyDependency(id) ==
    /\ id \notin completed_chunks
    /\ Deps(id) # {} => Deps(id) \cap completed_chunks # {}

\* variant: a chunk that is done is ready again
IsReadyAgain(id) == Deps(id) \subseteq completed_chunks

\* lines 162-163: not yet done, and every dependency done
IsReady(id) == id \notin completed_chunks /\ Deps(id) \subseteq completed_chunks

\* lines 160-164: ready_chunks, in declaration order
ReadyChunks == SelectSeq(IdsInOrder, IsReady)

\* variant: max_parallel is not applied
BatchSizeUnbounded(ready) == Len(ready)

\* line 170
BatchSize(ready) == Min(Len(ready), max_parallel)

\* line 171
BatchOf(ready) == SubSeq(ready, 1, BatchSize(ready))

\* line 158: the loop condition
MoreChunks == Cardinality(completed_chunks) < Len(chunks)

\* lines 158-173 and 190-195: a wave starts; one pool task per batch chunk
DispatchWave ==
    /\ pc = "loop"
    /\ MoreChunks
    /\ ReadyChunks # << >>
    /\ batch_chunks' = BatchOf(ReadyChunks)
    /\ future' = [c \in ChunkIds |->
                    IF c \in Range(batch_chunks')
                    THEN [state |-> "submitted", result |-> NoFuture.result]
                    ELSE NoFuture]
    /\ mark_idx' = 0
    /\ pc' = "batch"
    /\ waves' = Append(waves, batch_chunks')
    /\ UNCHANGED <<aux, state_file, integration_runs, chunks, max_parallel, chunk_results, current_chunk,
                   completed_chunks, registry, error, exit, retries_executed>>

\* variant: the loop is left with a break, the run goes on to the checks
RaiseCircularDependencyBreaking ==
    /\ pc = "loop"
    /\ MoreChunks
    /\ ReadyChunks = << >>
    /\ error' = CircularDependencyError
    /\ pc' = "validate"
    /\ UNCHANGED <<aux, waves, state_file, integration_runs, chunks, max_parallel, chunk_results, current_chunk,
                   completed_chunks, batch_chunks, future, mark_idx, registry,
                   exit, retries_executed>>

\* lines 166-167: nothing is ready while chunks remain
RaiseCircularDependency ==
    /\ pc = "loop"
    /\ MoreChunks
    /\ ReadyChunks = << >>
    /\ error' = CircularDependencyError
    /\ pc' = "except"
    /\ UNCHANGED <<aux, waves, state_file, integration_runs, chunks, max_parallel, chunk_results, current_chunk,
                   completed_chunks, batch_chunks, future, mark_idx, registry,
                   exit, retries_executed>>

\* line 158: the loop ends, generate_project goes on to line 101
ExitLoop ==
    /\ pc = "loop"
    /\ ~MoreChunks
    /\ pc' = "validate"
    /\ UNCHANGED <<aux, waves, state_file, integration_runs, chunks, max_parallel, chunk_results, current_chunk,
                   completed_chunks, batch_chunks, future, mark_idx, registry,
                   error, exit, retries_executed>>

-----------------------------------------------------------------------------
(* _generate_chunk_batch and the worker threads *)

\* lines 221-225: a pool thread enters _generate_single_chunk
WorkerStart(c) ==
    /\ pc = "batch"
    /\ future[c].state = "submitted"
    /\ current_chunk' = c
    /\ future' = [future EXCEPT ![c].state = "running"]
    /\ UNCHANGED <<aux, waves, state_file, integration_runs, chunks, max_parallel, pc, chunk_results, completed_chunks,
                   batch_chunks, mark_idx, registry, error, exit,
                   retries_executed>>

\* context.py lines 121-129: the ComponentRegistry entry of a chunk
ComponentRegistry(c, files) ==
    [chunk_id |-> c, files_generated |-> files, status |-> "completed"]

\* variant: registering a chunk drops the entries of the other chunks
RegisterChunkCompletionAlone(reg, c, files) ==
    [k \in {c} |-> ComponentRegistry(c, files)]

\* context.py lines 97-134: register_chunk_completion stores the entry under
\* the chunk id, whatever was stored under it before
RegisterChunkCompletion(reg, c, files) ==
    [k \in DOMAIN reg \cup {c} |->
        IF k = c THEN ComponentRegistry(c, files) ELSE reg[k]]

\* lines 485-492: _update_context_from_chunk
UpdateContextFromChunk(reg, c, result) ==
    IF result.status = COMPLETED
    THEN RegisterChunkCompletion(reg, c, result.files_generated)
    ELSE reg

\* the chunks that have an entry in the registry
Registered == DOMAIN registry

\* variant: the worker thread registers its own chunk when it finishes
WorkerFinishRegistering(c, outcome) ==
    /\ pc = "batch"
    /\ future[c].state = "running"
    /\ outcome \in plan[c].orig
    /\ future' = [future EXCEPT ![c] = [state |-> "finished",
                                        result |-> GenerateSingleChunk(c, outcome, chunk_dir[c])]]
    /\ registry' = UpdateContextFromChunk(registry, c,
                        GenerateSingleChunk(c, outcome, chunk_dir[c]))
    /\ chunk_dir' = [chunk_dir EXCEPT ![c] = @ \/ LeavesFiles(outcome)]
    /\ UNCHANGED <<plan, resumed, at_interrupt, exec, progress_callback, waves, state_file, integration_runs, chunks, max_parallel, pc,
                   chunk_results, current_chunk, completed_chunks, batch_chunks,
                   mark_idx, error, exit, retries_executed>>

\* lines 227-265: the attempt ends and the task's future holds its result
WorkerFinish(c, outcome) ==
    /\ pc = "batch"
    /\ future[c].state = "running"
    /\ outcome \in plan[c].orig
    /\ future' = [future EXCEPT ![c] = [state |-> "finished",
                                        result |-> GenerateSingleChunk(c, outcome, chunk_dir[c])]]
    /\ chunk_dir' = [chunk_dir EXCEPT ![c] = @ \/ LeavesFiles(outcome)]
    /\ UNCHANGED <<plan, resumed, at_interrupt, exec, progress_callback, waves, state_file, integration_runs, chunks, max_parallel, pc, chunk_results, current_chunk,
                   completed_chunks, batch_chunks, mark_idx, registry, error,
                   exit, retries_executed>>

\* variant: the result is recorded under the shared current-chunk pointer
RecordResultUnderCurrent(c) ==
    /\ pc = "batch"
    /\ future[c].state = "finished"
    /\ chunk_results' = [chunk_results EXCEPT ![current_chunk] = future[c].result]
    /\ registry' = UpdateContextFromChunk(registry, c, future[c].result)
    /\ future' = [future EXCEPT ![c].state = "recorded"]
    /\ \E io_ok \in BOOLEAN :
          state_file' = SaveState(chunk_results', current_chunk, state_file, io_ok)
    /\ UNCHANGED <<aux, waves, integration_runs, chunks, max_parallel, pc, current_chunk, completed_chunks,
                   batch_chunks, mark_idx, error, exit, retries_executed>>

\* variant: a save that does not write the file raises out of the wave loop
RecordResultSaveRaising(c) ==
    /\ pc = "batch"
    /\ future[c].state = "finished"
    /\ chunk_results' = [chunk_results EXCEPT ![c] = future[c].result]
    /\ registry' = UpdateContextFromChunk(registry, c, future[c].result)
    /\ future' = [future EXCEPT ![c].state = "recorded"]
    /\ \E io_ok \in BOOLEAN :
          /\ state_file' = SaveState(chunk_results', current_chunk, state_file, io_ok)
          /\ IF state_file' = << StateDict(chunk_results', current_chunk) >>
             THEN pc' = pc /\ error' = error
             ELSE pc' = "except" /\ error' = [text |-> "TypeError", ids |-> {}]
    /\ UNCHANGED <<aux, waves, integration_runs, chunks, max_parallel, current_chunk, completed_chunks,
                   batch_chunks, mark_idx, exit, retries_executed>>

\* lines 198-217: as_completed hands over a finished future, its result is
\* recorded, the context registry updated and _save_state called
RecordResult(c) ==
    /\ pc = "batch"
    /\ future[c].state = "finished"
    /\ chunk_results' = [chunk_results EXCEPT ![c] = future[c].result]
    /\ registry' = UpdateContextFromChunk(registry, c, future[c].result)
    /\ future' = [future EXCEPT ![c].state = "recorded"]
    /\ \E io_ok \in BOOLEAN :
          state_file' = SaveState(chunk_results', current_chunk, state_file, io_ok)
    /\ UNCHANGED <<aux, waves, integration_runs, chunks, max_parallel, pc, current_chunk, completed_chunks,
                   batch_chunks, mark_idx, error, exit, retries_executed>>

\* variant: the batch is left after the first result
BatchDoneAny == \E c \in Range(batch_chunks) : future[c].state = "recorded"

\* line 198: as_completed is exhausted when every future of the batch was
\* handed over
BatchDone == \A c \in Range(batch_chunks) : future[c].state = "recorded"

\* lines 190 and 198: the with-block ends, _generate_chunk_batch returns
JoinBatch ==
    /\ pc = "batch"
    /\ BatchDone
    /\ mark_idx' = 1
    /\ pc' = "mark"
    /\ UNCHANGED <<aux, waves, state_file, integration_runs, chunks, max_parallel, chunk_results, current_chunk,
                   completed_chunks, batch_chunks, future, registry, error,
                   exit, retries_executed>>

-----------------------------------------------------------------------------
(* "Mark completed chunks", recovery and skipping *)

\* variant: every chunk that is still pending is skipped
SkipAllPending(results, failed_id) ==
    [k \in DOMAIN results |->
        IF k \in ChunkIds /\ results[k].status = PENDING
        THEN [results[k] EXCEPT !.status = SKIPPED]
        ELSE results[k]]

\* variant: the skip mark comes with a text in error_message
SkipDependentChunksWithMessage(results, failed_id) ==
    [k \in DOMAIN results |->
        IF /\ k \in ChunkIds
           /\ failed_id \in Deps(k)
           /\ results[k].status = PENDING
        THEN [results[k] EXCEPT !.status = SKIPPED,
                                !.error_message = "dependency failed"]
        ELSE results[k]]

\* lines 728-738: _skip_dependent_chunks
SkipDependentChunks(results, failed_id) ==
    [k \in DOMAIN results |->
        IF /\ k \in ChunkIds
           /\ failed_id \in Deps(k)
           /\ results[k].status = PENDING
        THEN [results[k] EXCEPT !.status = SKIPPED]
        ELSE results[k]]

\* line 696
RetryCapReached(result) == result.retry_count >= MaxRetries

\* line 176: the for loop goes to its next chunk, or the wave is over
NextMark ==
    IF mark_idx < Len(batch_chunks)
    THEN mark_idx' = mark_idx + 1 /\ pc' = "mark"
    ELSE mark_idx' = 0 /\ pc' = "loop"

\* lines 176-186 and 692-702: one chunk of the batch is looked at
MarkChunk ==
    /\ pc = "mark"
    /\ LET c == batch_chunks[mark_idx]
           result == chunk_results[c]
       IN  IF result.status = COMPLETED
           THEN /\ completed_chunks' = completed_chunks \cup {c}
                /\ NextMark
                /\ UNCHANGED <<chunk_results, current_chunk, retries_executed>>
           ELSE IF result.status = FAILED
           THEN IF RetryCapReached(result)
                THEN /\ chunk_results' = SkipDependentChunks(chunk_results, c)
                     /\ completed_chunks' = completed_chunks \cup {c}
                     /\ NextMark
                     /\ UNCHANGED <<current_chunk, retries_executed>>
                ELSE \* lines 699-719: the retry starts in this thread
                     /\ chunk_results' =
                            [chunk_results EXCEPT ![c].retry_count = @ + 1]
                     /\ current_chunk' = c
                     /\ retries_executed' =
                            [retries_executed EXCEPT ![c] = @ + 1]
                     /\ pc' = "recovery"
                     /\ UNCHANGED <<completed_chunks, mark_idx>>
           ELSE /\ NextMark
                /\ UNCHANGED <<chunk_results, current_chunk, completed_chunks,
                               retries_executed>>
    /\ UNCHANGED <<aux, waves, state_file, integration_runs, chunks, max_parallel, batch_chunks, future, registry, error,
                   exit>>

\* variant: a retry that fails raises out of the wave loop
RecoveryFinishRaising(outcome) ==
    /\ pc = "recovery"
    /\ outcome \in plan[batch_chunks[mark_idx]].retry
    /\ LET c == batch_chunks[mark_idx]
           new_result == GenerateSingleChunk(c, outcome, chunk_dir[c])
       IN  /\ chunk_results' = [chunk_results EXCEPT ![c] = new_result]
           /\ IF new_result.status = COMPLETED
              THEN /\ completed_chunks' = completed_chunks \cup {c}
                   /\ error' = error
                   /\ IF mark_idx < Len(batch_chunks)
                      THEN mark_idx' = mark_idx + 1 /\ pc' = "mark"
                      ELSE mark_idx' = 0 /\ pc' = "loop"
              ELSE /\ completed_chunks' = completed_chunks
                   /\ error' = [text |-> new_result.error_message, ids |-> {}]
                   /\ mark_idx' = mark_idx
                   /\ pc' = "except"
    /\ chunk_dir' = [chunk_dir EXCEPT ![batch_chunks[mark_idx]] = @ \/ LeavesFiles(outcome)]
    /\ UNCHANGED <<plan, resumed, at_interrupt, exec, progress_callback, waves, state_file, integration_runs, chunks, max_parallel,
                   current_chunk, batch_chunks, future, registry, exit,
                   retries_executed>>

\* variant: a chunk whose retry failed is not marked done
RecoveryFinishNotDone(outcome) ==
    /\ pc = "recovery"
    /\ outcome \in plan[batch_chunks[mark_idx]].retry
    /\ LET c == batch_chunks[mark_idx]
           new_result == GenerateSingleChunk(c, outcome, chunk_dir[c])
           recorded == [chunk_results EXCEPT ![c] = new_result]
       IN  IF new_result.status = COMPLETED
           THEN /\ chunk_results' = recorded
                /\ completed_chunks' = completed_chunks \cup {c}
           ELSE /\ chunk_results' = SkipDependentChunks(recorded, c)
                /\ completed_chunks' = completed_chunks
    /\ IF mark_idx < Len(batch_chunks)
       THEN mark_idx' = mark_idx + 1 /\ pc' = "mark"
       ELSE mark_idx' = 0 /\ pc' = "loop"
    /\ chunk_dir' = [chunk_dir EXCEPT ![batch_chunks[mark_idx]] = @ \/ LeavesFiles(outcome)]
    /\ UNCHANGED <<plan, resumed, at_interrupt, exec, progress_callback, waves, state_file, integration_runs, chunks, max_parallel, current_chunk, batch_chunks, future,
                   registry, error, exit, retries_executed>>

\* lines 719-722 and 181-186: the retry ends; its result replaces the old one
RecoveryFinish(outcome) ==
    /\ pc = "recovery"
    /\ outcome \in plan[batch_chunks[mark_idx]].retry
    /\ LET c == batch_chunks[mark_idx]
           new_result == GenerateSingleChunk(c, outcome, chunk_dir[c])
           recorded == [chunk_results EXCEPT ![c] = new_result]
       IN  /\ chunk_results' = IF new_result.status = COMPLETED
                               THEN recorded
                               ELSE SkipDependentChunks(recorded, c)
           /\ completed_chunks' = completed_chunks \cup {c}
    /\ NextMark
    /\ chunk_dir' = [chunk_dir EXCEPT ![batch_chunks[mark_idx]] = @ \/ LeavesFiles(outcome)]
    /\ UNCHANGED <<plan, resumed, at_interrupt, exec, progress_callback, waves, state_file, integration_runs, chunks, max_parallel, current_chunk, batch_chunks, future,
                   registry, error, exit, retries_executed>>

-----------------------------------------------------------------------------
(* the rest of generate_project *)

\* state.analysis of a loaded state is a dict: state.analysis.chunks raises
AttributeError == [text |-> "AttributeError", ids |-> {}]

\* lines 506-520: only warnings are logged; line 511 reads state.analysis.chunks
ValidateIntegration ==
    /\ pc = "validate"
    /\ integration_runs' = integration_runs + 1
    /\ IF resumed = "loaded"
       THEN pc' = "except" /\ error' = AttributeError
       ELSE pc' = "docs" /\ error' = error
    /\ UNCHANGED <<aux, waves, state_file, chunks, max_parallel, chunk_results, current_chunk,
                   completed_chunks, batch_chunks, future, mark_idx, registry,
                   exit, retries_executed>>

\* lines 522-540: README.md and ARCHITECTURE.md are written, or the write fails
GenerateProjectDocumentation(ok) ==
    /\ pc = "docs"
    /\ IF ok THEN pc' = "finally" /\ error' = error
             ELSE pc' = "except" /\ error' = DocumentationError
    /\ UNCHANGED <<aux, waves, state_file, integration_runs, chunks, max_parallel, chunk_results, current_chunk,
                   completed_chunks, batch_chunks, future, mark_idx, registry,
                   exit, retries_executed>>

\* variant: the state is saved when the handler starts, before it records
\* the error, and generate_project returns from the handler
ExceptHandlerAfterSave ==
    /\ pc = "except"
    /\ \E io_ok \in BOOLEAN :
          state_file' = SaveState(chunk_results, current_chunk, state_file, io_ok)
    /\ LET key == IF current_chunk = NoChunk THEN UnknownChunk ELSE current_chunk
       IN  chunk_results' =
               [k \in DOMAIN chunk_results \cup {key} |->
                   IF k = key THEN ChunkResult(key, FAILED, {}, error.text)
                   ELSE chunk_results[k]]
    /\ pc' = "returned"
    /\ exit' = "returned"
    /\ UNCHANGED <<aux, waves, integration_runs, chunks, max_parallel, current_chunk, completed_chunks,
                   batch_chunks, future, mark_idx, registry, error,
                   retries_executed>>

\* lines 108-117: the handler of generate_project
ExceptHandler ==
    /\ pc = "except"
    /\ LET key == IF current_chunk = NoChunk THEN UnknownChunk ELSE current_chunk
       IN  chunk_results' =
               [k \in DOMAIN chunk_results \cup {key} |->
                   IF k = key THEN ChunkResult(key, FAILED, {}, error.text)
                   ELSE chunk_results[k]]
    /\ pc' = "finally"
    /\ UNCHANGED <<aux, waves, state_file, integration_runs, chunks, max_parallel, current_chunk, completed_chunks,
                   batch_chunks, future, mark_idx, registry, error, exit,
                   retries_executed>>

\* variant: the handler lets the exception go on to the caller
ReturnStateOrRaise ==
    /\ pc = "finally"
    /\ pc' = "returned"
    /\ exit' = IF error = NoError THEN "returned" ELSE "raised"
    /\ \E io_ok \in BOOLEAN :
          state_file' = SaveState(chunk_results, current_chunk, state_file, io_ok)
    /\ UNCHANGED <<aux, waves, integration_runs, chunks, max_parallel, chunk_results, current_chunk,
                   completed_chunks, batch_chunks, future, mark_idx, registry,
                   error, retries_executed>>

\* lines 118-121: the last save, and the state is returned to the caller
ReturnState ==
    /\ pc = "finally"
    /\ pc' = "returned"
    /\ exit' = "returned"
    /\ \E io_ok \in BOOLEAN :
          state_file' = SaveState(chunk_results, current_chunk, state_file, io_ok)
    /\ UNCHANGED <<aux, waves, integration_runs, chunks, max_parallel, chunk_results, current_chunk,
                   completed_chunks, batch_chunks, future, mark_idx, registry,
                   error, retries_executed>>

Next ==
    \/ CreateInitialState
    \/ DispatchWave
    \/ RaiseCircularDependency
    \/ ExitLoop
    \/ \E c \in ChunkIds : WorkerStart(c)
    \/ \E c \in ChunkIds, outcome \in AttemptOutcomes : WorkerFinish(c, outcome)
    \/ \E c \in ChunkIds : RecordResult(c)
    \/ JoinBatch
    \/ MarkChunk
    \/ \E outcome \in AttemptOutcomes : RecoveryFinish(outcome)
    \/ ValidateIntegration
    \/ \E ok \in BOOLEAN : GenerateProjectDocumentation(ok)
    \/ ExceptHandler
    \/ ReturnState

Spec == Init /\ [][Next]_vars

\* every thread that can take a step eventually takes one: the pool threads
\* run, and each generation attempt ends (the external call has a timeout)
FairSpec == Spec /\ WF_vars(Next)

TypeOK ==
    /\ pc \in {"start", "loop", "batch", "mark", "recovery", "validate", "docs",
               "except", "finally", "returned", "stopped"}
    /\ max_parallel \in 1..MaxParallel
    /\ \A k \in DOMAIN chunk_results : chunk_results[k].status \in ChunkStatus
    /\ completed_chunks \subseteq ChunkIds
    /\ Registered \subseteq ChunkIds
    /\ exit \in {"none", "returned", "raised"}

-----------------------------------------------------------------------------
(* One chunk through _generate_single_chunk and _attempt_chunk_recovery *)

\* largest estimated_lines of a chunk definition
MaxLines == 5

\* longest files_to_generate list of a chunk definition
MaxFiles == 3

\* names a chunk can declare; the analyzer declares files and directories
FileNames == {"main.py", "README.md"}

DirectoryNames == {"templates/"}

DeclaredNames == FileNames \cup DirectoryNames

\* file_spec.endswith('/')
EndsWithSlash(name) == name \in DirectoryNames

\* files the external tool can leave in the chunk directory
ToolFiles == {"gen.py", ".cache"}

\* file.startswith('.')
StartsWithDot(name) == name \in {".cache"}

Complexities == {"low", "medium", "high"}

SeqsUpTo(S, n) == UNION {[1..k -> S] : k \in 0..n}

\* analyzer.py ChunkDefinition with the fields the executor reads
FullChunkDefinition(id, text, deps, lines, cx, files, ifs) ==
    [chunk_id |-> id, description |-> text, dependencies |-> deps,
     estimated_lines |-> lines, complexity |-> cx,
     files_to_generate |-> files, interfaces |-> ifs]

ChunkDefinitions ==
    {FullChunkDefinition("A", "core", deps, lines, cx, files, ifs) :
        deps \in {{}, {"B"}}, lines \in 0..MaxLines, cx \in Complexities,
        files \in SeqsUpTo(DeclaredNames, MaxFiles), ifs \in {{}, {"api"}}}

\* a retry that keeps the whole declared list
SimplifiedChunkKeepingFiles(chunk) ==
    [chunk EXCEPT !.description = "Simplified " \o @,
                  !.estimated_lines = @ \div 2,
                  !.complexity = IF @ = "high" THEN "medium" ELSE "low"]

\* lines 704-715: the ChunkDefinition the recovery generates
SimplifiedChunk(chunk) ==
    [chunk EXCEPT !.description = "Simplified " \o @,
                  !.estimated_lines = @ \div 2,
                  !.complexity = IF @ = "high" THEN "medium" ELSE "low",
                  !.files_to_generate = SubSeq(@, 1, Min(2, Len(@)))]

\* the order in which os.walk lists the entries of the chunk directory
WalkOrder == <<".cache", "README.md", "gen.py", "main.py", "templates/">>

IsListedFile(dir, name) ==
    name \in dir /\ ~EndsWithSlash(name) /\ ~StartsWithDot(name)

\* lines 352-359: the files of chunk_dir whose name does not start with '.'
WalkFiles(dir) == SelectSeq(WalkOrder, LAMBDA name : IsListedFile(dir, name))

\* lines 367-382: one file_spec after the other; fail_at is the index at which
\* makedirs or open raises (0: none does)
RECURSIVE FallbackLoop(_, _, _, _)
FallbackLoop(specs, i, fail_at, acc) ==
    IF i > Len(specs) THEN acc
    ELSE IF i = fail_at THEN [acc EXCEPT !.raised = TRUE]
    ELSE IF EndsWithSlash(specs[i])
         THEN FallbackLoop(specs, i + 1, fail_at,
                           [acc EXCEPT !.dir = @ \cup {specs[i]}])
         ELSE FallbackLoop(specs, i + 1, fail_at,
                           [acc EXCEPT !.dir = @ \cup {specs[i]},
                                       !.files = Append(@, specs[i])])

\* _fallback_chunk_generation: what it returns and leaves in chunk_dir
FallbackChunkGeneration(chunk, dir, fail_at) ==
    FallbackLoop(chunk.files_to_generate, 1, fail_at,
                 [raised |-> FALSE, files |-> << >>, dir |-> dir])

\* how subprocess.run ended: exit code 0, another exit code, TimeoutExpired,
\* another exception
CallEnds == {"zero", "nonzero", "timeout", "error"}

ExecInit ==
    /\ chunks = NoChunks
    /\ max_parallel = 1
    /\ pc = "start"
    /\ chunk_results = [c \in {} |-> NoFuture.result]
    /\ current_chunk = NoChunk
    /\ completed_chunks = {}
    /\ batch_chunks = << >>
    /\ future = [c \in {} |-> NoFuture]
    /\ mark_idx = 0
    /\ registry = << >>
    /\ error = NoError
    /\ exit = "none"
    /\ retries_executed = [c \in {} |-> 0]
    /\ plan = [c \in {} |-> AnyOutcome]
    /\ state_file = << >>
    /\ integration_runs = 0
    /\ resumed = "no"
    /\ at_interrupt = NotInterrupted
    /\ chunk_dir = [c \in {} |-> FALSE]
    /\ progress_callback = "absent"
    /\ waves = << >>
    /\ \E chunk \in ChunkDefinitions :
          exec = [pc |-> "start", chunk |-> chunk, def |-> chunk, attempt |-> 0,
                  dir |-> {}, files |-> << >>, call |-> "none",
                  fallback_invoked |-> FALSE, warnings |-> {},
                  result |-> ChunkResult(chunk.chunk_id, PENDING, << >>, ""),
                  dependents_skipped |-> FALSE]

ExecUnchanged ==
    UNCHANGED <<chunks, max_parallel, pc, chunk_results, current_chunk,
                completed_chunks, batch_chunks, future, mark_idx, registry,
                error, exit, retries_executed, plan, state_file,
                integration_runs, resumed, at_interrupt, chunk_dir,
                progress_callback, waves>>

\* lines 219-233: current chunk, prompt, chunk directory
GenerateStart(ok) ==
    /\ exec.pc = "start"
    /\ exec' = IF ok
               THEN [exec EXCEPT !.pc = "call", !.files = << >>,
                                 !.call = "none", !.fallback_invoked = FALSE,
                                 !.warnings = {}]
               ELSE [exec EXCEPT !.pc = "recorded", !.files = << >>,
                                 !.call = "none", !.fallback_invoked = FALSE,
                                 !.warnings = {},
                                 !.result = ChunkResult(exec.def.chunk_id,
                                                FAILED, << >>, "OSError")]
    /\ ExecUnchanged

\* lines 312-359: the external call, then the fallback or the directory walk
ExecuteChunkGeneration(ends, written, fail_at) ==
    /\ exec.pc = "call"
    /\ ends = "error" => written = {}
    /\ fail_at \in 0..Len(exec.def.files_to_generate)
    /\ ends = "zero" => fail_at = 0
    /\ LET dir1 == exec.dir \cup written
           fb == FallbackChunkGeneration(exec.def, dir1, fail_at)
       IN  exec' =
             IF ends = "zero"
             THEN [exec EXCEPT !.pc = "validate", !.call = ends,
                               !.dir = dir1, !.files = WalkFiles(dir1)]
             ELSE IF fb.raised
                  THEN [exec EXCEPT !.pc = "recorded", !.call = ends,
                                    !.fallback_invoked = TRUE,
                                    !.dir = fb.dir,
                                    !.result = ChunkResult(exec.def.chunk_id,
                                                   FAILED, << >>, "OSError")]
                  ELSE [exec EXCEPT !.pc = "validate", !.call = ends,
                                    !.fallback_invoked = TRUE,
                                    !.dir = fb.dir, !.files = fb.files]
    /\ ExecUnchanged

\* a validation that rejects an attempt with a missing declared file
ValidateChunkRequiringFiles ==
    /\ exec.pc = "validate"
    /\ LET missing == {name \in Range(exec.def.files_to_generate) :
                          ~EndsWithSlash(name) /\ name \notin Range(exec.files)}
       IN  exec' =
             IF exec.files = << >> \/ missing # {}
             THEN [exec EXCEPT !.pc = "recorded",
                               !.result = ChunkResult(exec.def.chunk_id, FAILED,
                                              << >>, "No files generated for chunk")]
             ELSE [exec EXCEPT !.pc = "recorded",
                               !.result = ChunkResult(exec.def.chunk_id,
                                              COMPLETED, exec.files, "")]
    /\ ExecUnchanged

\* lines 240-254 and 494-504: _validate_chunk and the result of the attempt;
\* a declared file that was not produced is only logged
ValidateChunk ==
    /\ exec.pc = "validate"
    /\ LET missing == {name \in Range(exec.def.files_to_generate) :
                          ~EndsWithSlash(name) /\ name \notin Range(exec.files)}
       IN  exec' =
             IF exec.files = << >>
             THEN [exec EXCEPT !.pc = "recorded",
                               !.result = ChunkResult(exec.def.chunk_id, FAILED,
                                              << >>, "No files generated for chunk")]
             ELSE [exec EXCEPT !.pc = "recorded", !.warnings = missing,
                               !.result = ChunkResult(exec.def.chunk_id,
                                              COMPLETED, exec.files, "")]
    /\ ExecUnchanged

\* lines 165-171 and 696-715: the failed chunk is retried once, simplified
AttemptChunkRecovery ==
    /\ exec.pc = "recorded"
    /\ exec.result.status = FAILED
    /\ exec.attempt = 0
    /\ ~RetryCapReached(exec.result)
    /\ exec' = [exec EXCEPT !.pc = "start", !.attempt = 1,
                            !.def = SimplifiedChunk(exec.chunk),
                            !.result.retry_count = @ + 1]
    /\ ExecUnchanged

\* variant: the dependents are skipped whenever the fallback was used
ChunkDoneSkippingAfterFallback ==
    /\ exec.pc = "recorded"
    /\ exec.result.status = COMPLETED \/ exec.attempt = 1
    /\ exec' = [exec EXCEPT !.pc = "done",
                            !.dependents_skipped =
                                exec.result.status # COMPLETED \/ exec.fallback_invoked]
    /\ ExecUnchanged

\* lines 176-186: the chunk is added to completed_chunks; its dependents are
\* skipped when the retry failed too
ChunkDone ==
    /\ exec.pc = "recorded"
    /\ exec.result.status = COMPLETED \/ exec.attempt = 1
    /\ exec' = [exec EXCEPT !.pc = "done",
                            !.dependents_skipped = exec.result.status # COMPLETED]
    /\ ExecUnchanged

ExecNext ==
    \/ \E ok \in BOOLEAN : GenerateStart(ok)
    \/ \E ends \in CallEnds, written \in SUBSET ToolFiles,
          fail_at \in 0..MaxFiles : ExecuteChunkGeneration(ends, written, fail_at)
    \/ ValidateChunk
    \/ AttemptChunkRecovery
    \/ ChunkDone

ExecSpec == ExecInit /\ [][ExecNext]_vars

-----------------------------------------------------------------------------
(* A run that is stopped and started again with resume_from *)

\* graphs of the runs that are stopped and resumed
ResumeGraphs == {NoChunks, Chain, Wide, FreeAndCycle, SelfCycle}

\* deterministic generation: each attempt of a chunk has one outcome
DeterministicOutcomes ==
    {[orig |-> {o}, retry |-> {r}] :
        o \in {"files", "no_files"}, r \in {"files", "partial"}}

ResumeInit == InitWith(ResumeGraphs, DeterministicOutcomes, WorkingSinks)

\* the process ends between two waves (it is killed) or after generate_project
\* has returned; the files in the output directory stay
StopRun ==
    /\ pc \in {"loop", "returned"}
    /\ resumed = "no"
    /\ at_interrupt = NotInterrupted
    /\ at_interrupt' = [at |-> pc, done |-> completed_chunks,
                        results |-> chunk_results]
    /\ pc' = "stopped"
    /\ UNCHANGED <<plan, resumed, exec, chunk_dir, progress_callback, waves,
                   state_file, integration_runs,
                   chunks, max_parallel, chunk_results, current_chunk,
                   completed_chunks, batch_chunks, future, mark_idx, registry,
                   error, exit, retries_executed>>

\* generate_project(resume_from = ...) in a new process, lines 80-94 and 150:
\* the state is loaded when the state file exists and created anew when it
\* does not; completed_chunks starts empty and the context manager is new
ResumeRun ==
    /\ pc = "stopped"
    /\ IF state_file # << >>
       THEN /\ chunk_results' = LoadState(state_file).chunk_results
            /\ current_chunk' = LoadState(state_file).current_chunk
            /\ resumed' = "loaded"
       ELSE /\ chunk_results' = [c \in ChunkIds |-> ChunkResult(c, PENDING, {}, "")]
            /\ current_chunk' = NoChunk
            /\ resumed' = "fresh"
    /\ completed_chunks' = {}
    /\ batch_chunks' = << >>
    /\ future' = [c \in ChunkIds |-> NoFuture]
    /\ mark_idx' = 0
    /\ registry' = << >>
    /\ error' = NoError
    /\ exit' = "none"
    /\ retries_executed' = [c \in ChunkIds |-> 0]
    /\ integration_runs' = 0
    /\ pc' = "loop"
    /\ waves' = << >>
    /\ UNCHANGED <<plan, at_interrupt, exec, chunk_dir, progress_callback,
                   state_file, chunks,
                   max_parallel>>

ResumeNext == Next \/ StopRun \/ ResumeRun

ResumeSpec == ResumeInit /\ [][ResumeNext]_vars

-----------------------------------------------------------------------------
(* Runs with and without a progress sink *)

\* graphs of the runs that differ in their sink
SinkGraphs == {NoChunks, Chain, Wide, Fork, FreeAndCycle}

SinkInit == InitWith(SinkGraphs, DeterministicOutcomes, Sinks)

\* what the sink raised
SinkError == [text |-> "sink", ids |-> {}]

\* lines 85-86: the state is created and the first progress line is logged
\* before the try block of line 96: what the sink raises goes to the caller of
\* generate_project, which gets no state; nothing was saved
LogProgressRaisesAtStart ==
    /\ pc = "start"
    /\ LogProgressRaises
    /\ chunk_results' = [c \in ChunkIds |-> ChunkResult(c, PENDING, {}, "")]
    /\ current_chunk' = NoChunk
    /\ error' = SinkError
    /\ exit' = "raised"
    /\ pc' = "returned"
    /\ UNCHANGED <<aux, waves, state_file, integration_runs, chunks, max_parallel,
                   completed_chunks, batch_chunks, future, mark_idx, registry,
                   retries_executed>>

SinkNext == Next \/ LogProgressRaisesAtStart

SinkSpec == SinkInit /\ [][SinkNext]_vars

-----------------------------------------------------------------------------
(* Properties of the scheduler *)

AllTerminal == \A c \in ChunkIds : Status(c) \in Terminal

InFlight == Dispatched \cup Executing

\* C1: for an acyclic chunk graph, whatever the parallelism bound and the
\* outcomes of the attempts, the wave loop ends (generate_project reaches its
\* integration check) and then no chunk is PENDING or IN_PROGRESS.
C1_WaveLoopTerminates == Acyclic => <>(pc = "validate" /\ AllTerminal)

C1_Witness ==
    /\ Acyclic
    /\ pc = "validate"
    /\ AllTerminal
    /\ \E c, d \in ChunkIds : Status(c) = FAILED /\ Status(d) = COMPLETED

\* C2: a chunk that is handed to the pool or executing has every declared
\* dependency marked done by the scheduler, with a terminal status, and not
\* itself handed to the pool or executing.
C2_DependenciesDoneBeforeDispatch ==
    \A c \in InFlight : \A d \in Deps(c) :
        /\ d \in completed_chunks
        /\ Status(d) \in Terminal
        /\ d \notin InFlight

C2_Witness ==
    \E c \in Running : Deps(c) # {} /\ \E d \in Deps(c) : Status(d) = FAILED

\* C3 (as claimed): a chunk with a dependency that was finalized FAILED or
\* SKIPPED is never handed to the pool nor executed, and is SKIPPED.
C3_SkippedNeverDispatched ==
    \A c \in ChunkIds :
        (\E d \in Deps(c) : d \in completed_chunks /\ Status(d) \in {FAILED, SKIPPED})
            => (c \notin InFlight /\ Status(c) = SKIPPED)

\* the step that finalizes the chunk under the mark loop as FAILED and runs
\* _skip_dependent_chunks for it
FinalizesFailed(f) ==
    /\ pc \in {"mark", "recovery"}
    /\ f = batch_chunks[mark_idx]
    /\ f \notin completed_chunks
    /\ f \in completed_chunks'
    /\ chunk_results'[f].status = FAILED

\* C4 (as claimed): right after the skip-propagation for a chunk finalized
\* FAILED, every chunk of its transitive dependent closure that was PENDING
\* is SKIPPED.
C4_ClosureSkipped ==
    [][\A f \in ChunkIds : FinalizesFailed(f) =>
          \A c \in DependentClosure(f) :
              Status(c) = PENDING => chunk_results'[c].status = SKIPPED]_vars

\* C5 (as claimed): with a cyclic graph no chunk is ever handed to the pool
\* or executed.
C5_NothingDispatchedWhenCyclic == Cyclic => InFlight = {}

\* C5 (amended): a chunk that lies on a dependency cycle, or that needs such a
\* chunk, is never handed to the pool, never executed, never marked done and
\* has no artifact; a run on a cyclic graph ends with the circular dependency
\* error.
C5_CycleChunksNeverDispatched ==
    /\ \A c \in ChunkIds : BehindCycle(c) =>
          /\ c \notin InFlight
          /\ future[c].state = "none"
          /\ c \notin completed_chunks
          /\ c \in DOMAIN chunk_results => chunk_results[c].files_generated = {}
    /\ (Cyclic /\ pc = "returned") => error = CircularDependencyError

C5_Witness ==
    /\ pc = "returned"
    /\ error = CircularDependencyError
    /\ completed_chunks # {}
    /\ \E c \in ChunkIds : BehindCycle(c) /\ Status(c) = SKIPPED

CircularAbort == error.text = CircularDependencyError.text

HandlerKey == IF current_chunk = NoChunk THEN UnknownChunk ELSE current_chunk

C7_BoundedParallelism ==
    /\ Cardinality(Executing) <= max_parallel
    /\ Cardinality(InFlight) <= max_parallel
    /\ Len(batch_chunks) <= max_parallel
    /\ Cardinality(Range(batch_chunks)) = Len(batch_chunks)
    /\ pc = "batch" => {c \in ChunkIds : future[c].state # "none"} = Range(batch_chunks)

C7_Witness ==
    /\ pc = "batch"
    /\ Len(ReadyChunks) > max_parallel
    /\ Cardinality(Running) = max_parallel
    /\ max_parallel > 1

\* C8: outside _generate_chunk_batch no pool task is pending or running;
\* when the next ready set is computed every task of the last wave has
\* finished and its COMPLETED or FAILED result is recorded; whatever is in
\* flight belongs to the current batch.
C8_WaveBarrier ==
    /\ InFlight \subseteq Range(batch_chunks)
    /\ pc # "batch" =>
          /\ Dispatched = {} /\ Running = {}
          /\ \A c \in ChunkIds : future[c].state \in {"none", "recorded"}
    /\ pc \in {"loop", "mark", "recovery"} =>
          \A c \in Range(batch_chunks) :
              /\ future[c].state = "recorded"
              /\ Status(c) \in {COMPLETED, FAILED}

C8_Witness ==
    /\ pc = "loop"
    /\ MoreChunks
    /\ Len(batch_chunks) >= 2
    /\ ReadyChunks # << >>

\* C9: no chunk is retried more than twice, and every retry counter is
\* between 0 and 2.
C9_RetryBound ==
    /\ \A c \in ChunkIds : retries_executed[c] <= MaxRetries
    /\ \A k \in DOMAIN chunk_results : chunk_results[k].retry_count \in 0..MaxRetries

C9_Witness ==
    /\ pc = "recovery"
    /\ chunk_results[batch_chunks[mark_idx]].retry_count = 1
    /\ retries_executed[batch_chunks[mark_idx]] = 1

\* C10 (as claimed): a chunk marked done with status FAILED had two retries
\* executed.
C10_FailedOnlyAfterTwoRetries ==
    \A c \in completed_chunks :
        Status(c) = FAILED => retries_executed[c] = MaxRetries

-----------------------------------------------------------------------------
(* Properties of the executor, checked under ExecSpec *)

ComplexityTier(cx) == IF cx = "high" THEN 2 ELSE IF cx = "medium" THEN 1 ELSE 0

IsPrefix(s, t) == Len(s) <= Len(t) /\ \A i \in 1..Len(s) : s[i] = t[i]

\* C11: every retry of a failed chunk executes a reduced redefinition of it:
\* same id, dependencies and interfaces, half the estimated size (floor), the
\* first at most two declared files, complexity one tier lower (low stays low)
C11_RetryIsReducedScope ==
    exec.attempt = 1 =>
        /\ exec.def.chunk_id = exec.chunk.chunk_id
        /\ exec.def.dependencies = exec.chunk.dependencies
        /\ exec.def.interfaces = exec.chunk.interfaces
        /\ 2 * exec.def.estimated_lines <= exec.chunk.estimated_lines
        /\ exec.chunk.estimated_lines <= 2 * exec.def.estimated_lines + 1
        /\ IsPrefix(exec.def.files_to_generate, exec.chunk.files_to_generate)
        /\ Len(exec.def.files_to_generate)
              = Min(2, Len(exec.chunk.files_to_generate))
        /\ ComplexityTier(exec.def.complexity)
              = IF exec.chunk.complexity = "low" THEN 0
                ELSE ComplexityTier(exec.chunk.complexity) - 1
        /\ exec.def.complexity \in Complexities

\* a retry of a chunk with an odd size and more than two declared files has
\* gone through the external call
C11_Witness ==
    /\ exec.attempt = 1
    /\ exec.pc = "validate"
    /\ Len(exec.chunk.files_to_generate) > 2
    /\ exec.chunk.estimated_lines = 5
    /\ exec.chunk.complexity = "medium"

\* C12: whenever the fallback is invoked and returns, it returns an artifact
\* for every declared name, so its result is non-empty whenever the declared
\* list is non-empty
C12_FallbackCoversDeclared ==
    exec.pc = "validate" /\ exec.fallback_invoked =>
        /\ \A name \in Range(exec.def.files_to_generate) :
              name \in Range(exec.files)
        /\ exec.def.files_to_generate # << >> => exec.files # << >>

\* C13: when the external call was made and the attempt is recorded FAILED,
\* the fallback has been invoked for that attempt
C13_FallbackBeforeFailed ==
    exec.pc = "recorded" /\ exec.call # "none" /\ exec.result.status = FAILED
        => exec.fallback_invoked

\* C14: a COMPLETED result lists at least one file, and an attempt whose
\* generation returned at least one file is recorded COMPLETED, whatever
\* declared file is missing from it
C14_CompletedIffFiles ==
    /\ exec.result.status = COMPLETED => exec.result.files_generated # << >>
    /\ exec.pc \in {"recorded", "done"} /\ exec.files # << >>
          => /\ exec.result.status = COMPLETED
             /\ exec.result.files_generated = exec.files

\* an attempt is COMPLETED although a declared file is not among its files
C14_Witness ==
    /\ exec.pc = "recorded"
    /\ exec.result.status = COMPLETED
    /\ exec.warnings # {}
    /\ \E name \in Range(exec.def.files_to_generate) :
          ~EndsWithSlash(name) /\ name \notin Range(exec.result.files_generated)

\* C29: when the external call of an attempt fails (exit code, timeout or
\* exception) and the fallback returns files, the attempt is COMPLETED, the
\* chunk ends COMPLETED and its dependents are not skipped
C29_FallbackSuccessCompletes ==
    (/\ exec.pc \in {"recorded", "done"}
     /\ exec.call \in {"nonzero", "timeout", "error"}
     /\ exec.fallback_invoked
     /\ exec.files # << >>)
        => /\ exec.result.status = COMPLETED
           /\ exec.result.files_generated = exec.files
           /\ ~exec.dependents_skipped

\* the external call timed out, the fallback wrote the declared files and the
\* chunk is done
C29_Witness ==
    /\ exec.pc = "done"
    /\ exec.call = "timeout"
    /\ exec.fallback_invoked
    /\ Len(exec.files) >= 2
    /\ exec.result.status = COMPLETED

-----------------------------------------------------------------------------
(* Properties of the state store, the run and the registry *)

\* C15 (as claimed): while a wave's results are collected, the state file
\* holds a snapshot with the recorded result of every chunk already recorded.
C15_SnapshotAfterEachResult ==
    \A c \in Range(batch_chunks) :
        (pc = "batch" /\ future[c].state = "recorded") =>
            /\ state_file # << >>
            /\ c \in DOMAIN state_file[1].chunk_results
            /\ state_file[1].chunk_results[c].value = chunk_results[c]

\* the ready list computed when exactly the chunks of done are done
ReadyAfter(done) ==
    SelectSeq(IdsInOrder, LAMBDA id : id \notin done /\ Deps(id) \subseteq done)

\* C16: a resumed run starts from the state the stopped run had: the results
\* are those of the run stopped between two waves, its first ready list is the one the stopped
\* run would have computed next, and no chunk that was terminal when the run
\* stopped is dispatched again
C16_ResumeContinuesFromSnapshot ==
    [][/\ (at_interrupt.at = "loop" /\ resumed = "no" /\ resumed' # "no") =>
             /\ chunk_results' = at_interrupt.results
             /\ ReadyChunks' = ReadyAfter(at_interrupt.done)
       /\ (at_interrupt.at = "loop" /\ resumed' # "no") =>
             \A c \in ChunkIds :
                 future[c].state = "none" /\ future'[c].state = "submitted"
                     => at_interrupt.results[c].status \notin Terminal]_vars

OnlyOutcome(outcomes) == CHOOSE o \in outcomes : TRUE

\* the final status of a chunk in a run that is not stopped: the first attempt
\* finds an empty chunk directory, the retry what the first attempt left
UninterruptedStatus(c) ==
    LET first == OnlyOutcome(plan[c].orig)
        retry == OnlyOutcome(plan[c].retry)
    IN  IF \/ GenerateSingleChunk(c, first, FALSE).status = COMPLETED
           \/ GenerateSingleChunk(c, retry, LeavesFiles(first)).status = COMPLETED
        THEN COMPLETED
        ELSE FAILED

\* a run that was not stopped and ended without an error has these statuses
UninterruptedRunStatuses ==
    resumed = "no" /\ pc = "returned" /\ error = NoError
        => \A c \in ChunkIds : Status(c) = UninterruptedStatus(c)

\* C17: with deterministic outcomes, a run stopped after a wave and resumed
\* ends with the final status an uninterrupted run gives every chunk
C17_ResumedRunSameFinalStatuses ==
    (/\ resumed # "no" /\ at_interrupt.at = "loop" /\ at_interrupt.done # {}
     /\ pc = "returned" /\ error = NoError)
        => \A c \in ChunkIds : Status(c) = UninterruptedStatus(c)

\* C18: on an acyclic graph, whatever attempts fail, generate_project never
\* stops on the circular dependency error and never raises; it goes through
\* every wave, runs the integration check and returns the state.
C18_FailuresNeverAbort ==
    Acyclic =>
        /\ [](exit # "raised" /\ ~CircularAbort)
        /\ <>(/\ pc = "returned"
              /\ exit = "returned"
              /\ completed_chunks = ChunkIds
              /\ integration_runs = 1)

C18_Witness ==
    /\ Acyclic
    /\ pc = "returned"
    /\ exit = "returned"
    /\ integration_runs = 1
    /\ error = NoError
    /\ \E c, d \in ChunkIds : Status(c) = FAILED /\ d \in DependentClosure(c)

\* C19 (as claimed): a recorded result with status COMPLETED is never
\* changed by any later step.
C19_CompletedNeverChanges ==
    [][\A c \in DOMAIN chunk_results :
          chunk_results[c].status = COMPLETED =>
              /\ c \in DOMAIN chunk_results'
              /\ chunk_results'[c] = chunk_results[c]]_vars

C21_CompletedDependenciesRegistered ==
    \A c \in Dispatched :
        \A d \in Deps(c) \cap ChunkIds :
            Status(d) = COMPLETED => d \in Registered

\* C22: within a run the registry is append-only: an entry is created only for
\* a chunk whose recorded result is COMPLETED, with the files of that result,
\* and an entry that exists is never changed or removed
C22_RegistryAppendOnly ==
    [][/\ \A c \in DOMAIN registry :
              c \in DOMAIN registry' /\ registry'[c] = registry[c]
       /\ \A c \in DOMAIN registry' \ DOMAIN registry :
              /\ chunk_results'[c].status = COMPLETED
              /\ registry'[c] = ComponentRegistry(c, chunk_results'[c].files_generated)]_vars

\* the run ended with two entries in the registry, one of a chunk whose
\* result the handler replaced afterwards
C22_Witness ==
    /\ pc = "returned"
    /\ Cardinality(Registered) >= 2
    /\ \E c \in Registered : Status(c) = FAILED

\* the place of a chunk in the declaration order
Position(id) == CHOOSE i \in 1..Len(chunks) : chunks[i].chunk_id = id

\* chunk a goes before chunk b: a smaller priority number, or the same
\* priority and declared earlier
GoesBefore(a, b) ==
    \/ Def(a).priority < Def(b).priority
    \/ Def(a).priority = Def(b).priority /\ Position(a) < Position(b)

\* C23: the batch of a wave holds the first ready chunks by declared priority,
\* ties broken by declaration order: no ready chunk left out of the batch goes
\* before a chunk of the batch (nor has a larger priority number than every
\* chunk of the batch, should a larger number mean more urgent)
C23_BatchByPriority ==
    pc = "batch" =>
        LET left_out == Range(ReadyChunks) \ Range(batch_chunks)
        IN  /\ \A r \in left_out, c \in Range(batch_chunks) : ~GoesBefore(r, c)
            /\ \A r \in left_out :
                  \E c \in Range(batch_chunks) :
                      Def(r).priority <= Def(c).priority

\* C24: when a further wave is dispatched, the state file holds a snapshot
\* with the present status of every chunk, so also the outcome of a recovery
\* retry and every SKIPPED mark made since the results were collected
C24_SnapshotBeforeDispatch ==
    [][(pc = "loop" /\ pc' = "batch" /\ completed_chunks # {}) =>
          /\ state_file # << >>
          /\ \A c \in ChunkIds :
                /\ c \in DOMAIN state_file[1].chunk_results
                /\ state_file[1].chunk_results[c].value.status = Status(c)]_vars

\* the step left the state file without a snapshot of the state it leads to
NotSaved == state_file' # << StateDict(chunk_results', current_chunk') >>

\* C25: a save that fails is absorbed: the step that called it changes the
\* state in memory as the code around the call prescribes and nothing else (no
\* result is changed by the failure, no error is raised), and the run goes on
\* from the same place
C25_SaveFailureAbsorbed ==
    [][/\ \A c \in ChunkIds :
              (/\ pc = "batch"
               /\ future[c].state = "finished" /\ future'[c].state = "recorded"
               /\ NotSaved)
                  => /\ chunk_results' = [chunk_results EXCEPT ![c] = future[c].result]
                     /\ pc' = "batch"
                     /\ error' = error /\ exit' = exit
                     /\ completed_chunks' = completed_chunks
                     /\ batch_chunks' = batch_chunks
       /\ (pc = "finally" /\ pc' # "finally" /\ NotSaved)
              => /\ chunk_results' = chunk_results
                 /\ pc' = "returned" /\ exit' = "returned"
                 /\ error' = error]_vars

\* a run of three chunks went to its end although no save wrote the file
C25_Witness ==
    /\ pc = "returned" /\ exit = "returned" /\ error = NoError
    /\ state_file = << >>
    /\ Cardinality(ChunkIds) >= 3
    /\ AllTerminal
    /\ completed_chunks = ChunkIds

\* C26: no update is lost while the results of a wave are recorded: whatever
\* the order in which the tasks finish, no step of the wave touches the result
\* of a chunk outside the batch or a result already recorded, and at the
\* barrier every chunk of the batch has the result of its own task under its
\* own id
C26_NoLostUpdate ==
    [][pc = "batch" =>
          /\ \A k \in DOMAIN chunk_results :
                (k \notin Range(batch_chunks) \/ future[k].state = "recorded")
                    => chunk_results'[k] = chunk_results[k]
          /\ pc' = "mark" =>
                \A c \in Range(batch_chunks) :
                    /\ chunk_results'[c] = future[c].result
                    /\ chunk_results'[c].chunk_id = c]_vars

\* the barrier of a wave of three tasks is passed, the tasks ended
\* differently, and the task started last was not the last of the batch
C26_Witness ==
    /\ pc = "mark" /\ mark_idx = 1
    /\ Len(batch_chunks) = 3
    /\ current_chunk # batch_chunks[3]
    /\ \E a, b \in Range(batch_chunks) :
          Status(a) = COMPLETED /\ Status(b) = FAILED

\* C27: while the generation of a chunk is executing, its recorded status is
\* IN_PROGRESS
C27_ExecutingIsInProgress ==
    \A c \in Executing : Status(c) = IN_PROGRESS

\* C28: every chunk whose status is SKIPPED has a direct or transitive
\* dependency that was finalized FAILED (FAILED and marked done)
C28_SkippedHasFailedAncestor ==
    \A c \in ChunkIds \cap DOMAIN chunk_results :
        Status(c) = SKIPPED =>
            \E d \in Ancestors(c) \cap ChunkIds :
                Status(d) = FAILED /\ d \in completed_chunks

\* a chunk is SKIPPED next to a chunk that is pending with all its
\* dependencies COMPLETED
C28_Witness ==
    /\ pc \in {"loop", "batch"}
    /\ \E c \in ChunkIds : Status(c) = SKIPPED
    /\ \E p \in ChunkIds :
          /\ Status(p) = PENDING
          /\ Deps(p) # {}
          /\ \A d \in Deps(p) : Status(d) = COMPLETED

\* C30: the integration check is run once, when every chunk is terminal and
\* nothing is in flight, and a run that ends without error has run it exactly
\* once; after the abort on a circular dependency no wave is dispatched and
\* neither the integration check nor the documentation step is run
C30_IntegrationOnceAndNotAfterAbort ==
    [][/\ integration_runs' # integration_runs =>
              /\ integration_runs = 0 /\ integration_runs' = 1
              /\ AllTerminal /\ completed_chunks = ChunkIds /\ InFlight = {}
       /\ (pc' = "returned" /\ error' = NoError) => integration_runs' = 1
       /\ CircularAbort' =>
              /\ integration_runs' = 0
              /\ pc' \in {"except", "finally", "returned"}
              /\ InFlight' = {}
              /\ batch_chunks' = batch_chunks]_vars

\* a run that dispatched a wave was aborted on a circular dependency and has
\* returned
C30_Witness ==
    /\ pc = "returned"
    /\ CircularAbort
    /\ integration_runs = 0
    /\ batch_chunks # << >>

-----------------------------------------------------------------------------
(* Properties of the progress sink, the results and the last save *)

\* the batches of a run from the moment when exactly the chunks of done are
\* done: every chunk of a batch is done after its wave, whatever its outcome
RECURSIVE WavesAfter(_)
WavesAfter(done) ==
    IF Cardinality(done) >= Len(chunks) \/ ReadyAfter(done) = << >>
    THEN << >>
    ELSE LET batch == BatchOf(ReadyAfter(done))
         IN  <<batch>> \o WavesAfter(done \cup Range(batch))

\* C31: the sink changes nothing: a run that has ended, and that neither
\* stopped on a circular dependency nor failed to write the documentation,
\* has dispatched the waves and given every chunk the final status that the
\* graph and the outcomes of the attempts determine, whether the sink is
\* absent, present or raises when it is called
C31_SinkIsObservational ==
    (pc = "returned" /\ error \notin {CircularDependencyError, DocumentationError})
        => /\ waves = WavesAfter({})
           /\ \A c \in ChunkIds : Status(c) = UninterruptedStatus(c)

\* C32: the step that runs the skip-propagation for a failed chunk changes,
\* apart from the failed chunk's own result, only results that were PENDING,
\* and of those only the status, to SKIPPED; no result is added or removed;
\* the failed chunk keeps the result it had, or the one its retry returned;
\* the registry and the state file are not touched
C32_SkipChangesOnlyPendingStatus ==
    [][\A f \in ChunkIds : FinalizesFailed(f) =>
          /\ DOMAIN chunk_results' = DOMAIN chunk_results
          /\ \A k \in DOMAIN chunk_results \ {f} :
                chunk_results'[k] # chunk_results[k] =>
                    /\ chunk_results[k].status = PENDING
                    /\ chunk_results'[k] =
                           [chunk_results[k] EXCEPT !.status = SKIPPED]
          /\ chunk_results'[f] \in
                 {chunk_results[f]} \cup
                 {GenerateSingleChunk(f, o, chunk_dir[f]) : o \in plan[f].retry}
          /\ registry' = registry
          /\ state_file' = state_file]_vars

\* a failed chunk is done, a dependent of it is SKIPPED with nothing else
\* changed, and a chunk that COMPLETED before still has its files
C32_Witness ==
    /\ pc \in {"mark", "loop"}
    /\ \E f \in completed_chunks, c, d \in ChunkIds :
          /\ Status(f) = FAILED
          /\ f \in Deps(c)
          /\ chunk_results[c] = ChunkResult(c, SKIPPED, {}, "")
          /\ Status(d) = COMPLETED
          /\ chunk_results[d].files_generated # {}

\* C33 (as claimed): once the state exists, the keys of chunk_results are the
\* chunk ids of the graph, on every path, and every result carries its key as
\* chunk_id
C33_OneResultPerChunk ==
    pc # "start" =>
        /\ DOMAIN chunk_results = ChunkIds
        /\ \A k \in DOMAIN chunk_results : chunk_results[k].chunk_id = k

\* C34 (as claimed): current_chunk, when it is not None, names a chunk whose
\* generation is executing, and it is None when nothing is handed to the pool
\* or executing
C34_CurrentChunkIsExecuting ==
    /\ current_chunk # NoChunk => current_chunk \in Executing
    /\ InFlight = {} => current_chunk = NoChunk

\* the chunks that were part of a batch
EverDispatched == UNION {Range(waves[i]) : i \in DOMAIN waves}

\* C35: in a run that is not resumed no chunk is in two batches nor twice in
\* one; between two waves every chunk that was in a batch is marked done and
\* is not in the ready list; no chunk has more than the bounded number of
\* recovery retries besides its one pool task
C35_DispatchedInOneWave ==
    resumed = "no" =>
        /\ \A i, j \in DOMAIN waves :
              i # j => Range(waves[i]) \cap Range(waves[j]) = {}
        /\ \A i \in DOMAIN waves : Cardinality(Range(waves[i])) = Len(waves[i])
        /\ pc = "loop" =>
              /\ EverDispatched = completed_chunks
              /\ Range(ReadyChunks) \cap EverDispatched = {}
        /\ \A c \in ChunkIds : retries_executed[c] <= MaxRetries

\* three waves were dispatched, and a chunk of the first wave failed in the
\* pool and in its retry
C35_Witness ==
    /\ Len(waves) >= 3
    /\ pc = "loop"
    /\ \E c \in Range(waves[1]) : Status(c) = FAILED /\ retries_executed[c] >= 1

\* C36 (as claimed): the retry counter of a result is 0 in the initial state
\* and, between two waves and when the run has ended, it is the number of
\* recovery retries executed for the chunk
C36_RetryCountIsRetriesExecuted ==
    pc \in {"loop", "validate", "returned"} =>
        \A c \in ChunkIds : chunk_results[c].retry_count = retries_executed[c]

\* what the state file can hold after _save_state was called on a state
SavedFrom(results, cur, file) ==
    {SaveState(results, cur, file, io_ok) : io_ok \in BOOLEAN}

\* C37: generate_project ends only through its finally clause, on the path
\* without error and on the path through its handler; the step that ends it
\* is the call of _save_state, made on the results as they are when the
\* state is returned, and it changes none of them
C37_LastSaveSeesFinalState ==
    [][/\ (pc # "returned" /\ pc' = "returned") =>
             /\ pc = "finally"
             /\ chunk_results' = chunk_results
             /\ current_chunk' = current_chunk
             /\ state_file' \in SavedFrom(chunk_results', current_chunk', state_file)
       /\ (pc = "except" /\ pc' # "except") => pc' = "finally"
       /\ (pc = "docs" /\ pc' # "docs") => pc' \in {"finally", "except"}
       /\ (pc = "validate" /\ pc' # "validate") => pc' \in {"docs", "except"}
       /\ pc = "returned" => chunk_results' = chunk_results]_vars

\* the run ended through the handler after the documentation step failed, and
\* the handler's FAILED result was in the state when the last save was made
C37_Witness ==
    /\ pc = "returned"
    /\ error = DocumentationError
    /\ HandlerKey \in DOMAIN chunk_results
    /\ chunk_results[HandlerKey] = ChunkResult(HandlerKey, FAILED, {}, DocumentationError.text)
    /\ \E c \in ChunkIds \ {HandlerKey} : Status(c) = COMPLETED

====
